---- MODULE Spec2Model ----
(***************************************************************************)
(* Model of UnintrusivePageScraper (app/unintrusive_scraper/page_scraper.py)*)
(* One scraper instance is constructed, then scrape() is called a bounded  *)
(* number of times, one call after the other.  Strings are sequences of    *)
(* one-character strings so that rstrip, concatenation, str.replace and    *)
(* text-mode file I/O are computed the way Python computes them.           *)
(***************************************************************************)
EXTENDS Integers, Sequences, FiniteSets, TLC

\* ------------------------------------------------------------------ bounds
MaxRetries == 2      \* max_retries is drawn from 0..MaxRetries
MaxBackoffRetries == 3  \* max_retries of the scrapers built to observe the backoff
MaxCalls   == 2      \* number of scrape() calls made on the instance
MaxSlash   == 1      \* trailing slashes on base_url, leading slashes on the path
MaxBodyLen == 2      \* length of a response body / cache file
MaxNodes   == 2      \* text nodes under a <title> or <h1> tag

\* ----------------------------------------------------------------- strings
RECURSIVE Replace(_, _, _)
\* str.replace(old, new): leftmost, non-overlapping occurrences
Replace(s, old, new) ==
    IF Len(s) < Len(old) THEN s
    ELSE IF SubSeq(s, 1, Len(old)) = old
         THEN new \o Replace(SubSeq(s, Len(old) + 1, Len(s)), old, new)
         ELSE <<Head(s)>> \o Replace(Tail(s), old, new)

RECURSIVE rstrip(_, _)
\* str.rstrip(ch)
rstrip(s, ch) ==
    IF s # <<>> /\ s[Len(s)] = ch THEN rstrip(SubSeq(s, 1, Len(s) - 1), ch) ELSE s

RECURSIVE lstrip(_, _)
lstrip(s, ch) ==
    IF s # <<>> /\ Head(s) = ch THEN lstrip(Tail(s), ch) ELSE s

RECURSIVE Repeat(_, _)
Repeat(ch, n) == IF n = 0 THEN <<>> ELSE <<ch>> \o Repeat(ch, n - 1)

\* the absent value None, kept apart from every string (<<>> is the empty string)
None == <<"None">>
\* "no such file" in the cache directory
NoFile == <<"NoFile">>
\* `not x` for x a str or None
Falsy(x) == x = None \/ x = <<>>

HTTP  == <<"h", "t", "t", "p", ":", "/", "/">>
HTTPS == <<"h", "t", "t", "p", "s", ":", "/", "/">>
DotHtml == <<".", "h", "t", "m", "l">>

\* the site: scheme, host and port, no trailing slash
Host == HTTP \o <<"a", ":", "8">>
\* base_url arguments handed to the constructor
Origins == {Host \o Repeat("/", n) : n \in 0..MaxSlash}
\* what a strategy's get_url() may return
PathBody == <<"p">>
\* a path that holds a URL, as the pages of a web archive do: "/http://p"
EmbeddedPath == <<"/">> \o HTTP \o PathBody
Paths == {Repeat("/", n) \o PathBody : n \in 0..MaxSlash} \cup {EmbeddedPath}
GetUrlReturns == Paths \cup {None, <<>>}
\* ExampleComStrategy.get_url() (app/scrape_strategies/example_strategy.py)
ExamplePath == <<"/">>
\* the site under the other scheme
SecureHost == HTTPS \o <<"a", ":", "8">>
\* pages whose paths differ in one character: "/p/p", "/p_p", "/p:p"
CollidePaths == {<<"/">> \o PathBody \o <<sep>> \o PathBody : sep \in {"/", "_", ":"}}

\* response.text / cache file contents: the first k characters of the text
\* "x\r\nx\r\n..."; a response body is empty or MaxBodyLen characters long, a
\* cache file may be any prefix of one
BodyLine == <<"x", "CR", "LF">>
BodyOfLen(k) == [i \in 1..k |-> BodyLine[((i - 1) % Len(BodyLine)) + 1]]
Bodies == {BodyOfLen(0), BodyOfLen(MaxBodyLen)}

\* ------------------------------------------------------------ file system
\* os.linesep of the platform the scraper runs on (POSIX)
os_linesep == <<"LF">>
\* f.write(text) on a file opened with open(path, "w", encoding="utf-8"):
\* newline=None translates every "\n" written to os.linesep
WriteText(text) == Replace(text, <<"LF">>, os_linesep)
\* f.read() on a file opened with open(path, "r", encoding="utf-8"):
\* newline=None enables universal newlines, "\r\n" and "\r" are read as "\n"
ReadText(file) == Replace(Replace(file, <<"CR", "LF">>, <<"LF">>), <<"CR">>, <<"LF">>)

\* the cache file name without the replacement of "/"
safe_filename_KeepSlash(url) ==
    Replace(Replace(Replace(url, HTTP, <<>>), HTTPS, <<>>),
            <<":">>, <<"_">>) \o DotHtml

\* line 155: the cache file name of a URL
safe_filename(url) ==
    Replace(Replace(Replace(Replace(url, HTTP, <<>>), HTTPS, <<>>),
                    <<"/">>, <<"_">>), <<":">>, <<"_">>) \o DotHtml

\* line 231: full_url = f"{self.base_url}{target_url_path}"
ResolveUrl(base, path) == base \o path

\* every URL a scrape of the model may resolve
URLs == {ResolveUrl(rstrip(o, "/"), p) :
             o \in Origins \cup {SecureHost},
             p \in Paths \cup {ExamplePath} \cup CollidePaths}
Keys == {safe_filename(u) : u \in URLs}

\* ----------------------------------------------------------------- robots
\* urllib.robotparser.RobotFileParser as the scraper uses it: the fields set by
\* __init__/read/parse, the rule lines abstracted to the URLs they disallow
\* for the scraper's user agent: everything ("Disallow: /") or the one
\* page "/p"
RuleSets == {URLs, {Host \o <<"/">> \o PathBody}}
\* how read() ends: urlopen or decode raises; HTTP 401/403; another 4xx; a
\* 5xx (HTTPError swallowed, nothing set); or the file is parsed
RobotsLoads == {[kind |-> k, rules |-> {}] :
                    k \in {"raise", "http_401_403", "http_4xx", "http_5xx"}}
                 \cup {[kind |-> "parsed", rules |-> d] : d \in RuleSets}

\* line 85: self.user_agent
user_agent == <<"MyWebScraper/1.0 (contact: example@email.com)">>

NewRobotParser == [disallow_all |-> FALSE, allow_all |-> FALSE,
                   last_checked |-> 0, disallowed |-> {}]

\* lines 86-94: RobotFileParser(); set_url(); try: read() except Exception: log
LoadRobots(load) ==
    IF load.kind = "http_401_403" THEN [NewRobotParser EXCEPT !.disallow_all = TRUE]
    ELSE IF load.kind = "http_4xx" THEN [NewRobotParser EXCEPT !.allow_all = TRUE]
    ELSE IF load.kind \in {"raise", "http_5xx"} THEN NewRobotParser
    ELSE [NewRobotParser EXCEPT !.last_checked = 1, !.disallowed = load.rules]

\* self.robot_parser.can_fetch(self.user_agent, url)
RobotParserCanFetch(rp, url) ==
    IF rp.disallow_all THEN FALSE
    ELSE IF rp.allow_all THEN TRUE
    ELSE IF rp.last_checked = 0 THEN FALSE
    ELSE url \notin rp.disallowed

\* can_fetch with `except Exception: return True`
can_fetch_FailOpen(rp, url, raises) ==
    IF raises THEN TRUE ELSE RobotParserCanFetch(rp, url)

\* lines 124-138: can_fetch, raises = the rule evaluation raised
can_fetch(rp, url, raises) ==
    IF raises THEN FALSE ELSE RobotParserCanFetch(rp, url)

\* ------------------------------------------------------------------ state
\* what strategy.parse may do: return None, [], {} or data, or raise
EmptyList == <<"[]">>
EmptyDict == <<"{}">>
Data      == <<"data">>
Raised    == <<"raised">>
Unset     == <<"unset">>
ParseReturns == {None, EmptyList, EmptyDict, Data}

\* WatersStrategy (app/scrape_strategies/waters_strategy.py).  get_url()
\* returns a fixed path with one leading slash
WatersPath == <<"/">> \o PathBody
\* the document as WatersStrategy.parse looks at it: is there a
\* <table class="wikitable">, and the number of <td> cells of each of its
\* <tr> rows, the header row first
NoSoup == [kind |-> "none", table |-> FALSE, rows |-> <<>>]
Soups == {[kind |-> "doc", table |-> FALSE, rows |-> <<>>]}
         \cup {[kind |-> "doc", table |-> TRUE, rows |-> r] :
                   r \in {<<>>, <<0, 5>>, <<0, 6>>}}
\* lines 61-108: the rows after the header that have six cells
WatersRows(rows) ==
    IF rows = <<>> THEN <<>> ELSE SelectSeq(Tail(rows), LAMBDA n : n = 6)
\* parse without the `if not table` check and the try around it: find_all is
\* called on None
WatersParse_NoTableCheck(soup) ==
    IF ~soup.table THEN Raised
    ELSE IF WatersRows(soup.rows) = <<>> THEN EmptyList ELSE Data
\* lines 47-111: WatersStrategy.parse
WatersParse(soup) ==
    IF ~soup.table THEN None
    ELSE IF WatersRows(soup.rows) = <<>> THEN EmptyList ELSE Data

\* ExampleComStrategy.parse looks at the <title> and the first <h1> of the
\* document. A tag is its contents: the text nodes directly or indirectly
\* under it, in document order (<title>T<!-- c --> T </title> has two)
NodeTexts == {<<"T">>, <<" ", "T", " ">>}
NoTag == [present |-> FALSE, contents |-> <<>>]
Tags == {[present |-> TRUE, contents |-> c] :
             c \in UNION {[1..n -> NodeTexts] : n \in 0..MaxNodes}}
ExampleDocs == {[kind |-> "example", title |-> t, h1 |-> h] :
                    t \in Tags \cup {NoTag}, h \in Tags \cup {NoTag}}
\* bs4's Tag.string: the only string under the tag, None when the tag holds
\* no node or more than one
TagString(tag) == IF Len(tag.contents) = 1 THEN tag.contents[1] ELSE None
RECURSIVE Join(_)
Join(nodes) == IF nodes = <<>> THEN <<>> ELSE Head(nodes) \o Join(Tail(nodes))
\* bs4's Tag.text: all strings under the tag, concatenated
TagText(tag) == Join(tag.contents)
\* str.strip()
strip(s) == lstrip(rstrip(s, " "), " ")
NoTitleFound   == <<"No title found">>
NoHeadingFound == <<"No heading found">>
\* the dict {"title": title, "heading": heading}
Dict(title, heading) ==
    <<"{", "title", ":">> \o title \o <<",", "heading", ":">> \o heading \o <<"}">>
\* lines 44-60: ExampleComStrategy.parse. No statement of its try block
\* raises for a document BeautifulSoup built, so the except branches are
\* never entered
ExampleParse(soup) ==
    LET title_tag == soup.title
        title == IF title_tag.present /\ ~Falsy(TagString(title_tag))
                 THEN strip(TagString(title_tag)) ELSE NoTitleFound
        heading_tag == soup.h1
        heading == IF heading_tag.present
                   THEN strip(TagText(heading_tag)) ELSE NoHeadingFound
    IN  Dict(title, heading)
ExampleResults == {ExampleParse(d) : d \in ExampleDocs}

\* the network of one scrape call: requests.get fails on the first n calls and
\* then answers 200, or fails on every call; a call fails by a timeout, a
\* connection error or a response whose status is not 2xx
AlwaysFail == -1
NetScripts == (0..MaxRetries) \cup {AlwaysFail}
\* does the call numbered n (from 0) fail under the script
NetFails(script, n) == script = AlwaysFail \/ n < script
\* how one requests.get call ends: it raises, or returns a response with a
\* status of one of the classes a caller of requests.get sees as the final
\* response (an interim 1xx response is consumed by the HTTP client)
GetRaises     == {"Timeout", "ConnectionError"}
StatusClasses == {"2xx", "3xx", "4xx", "5xx"}
GetOutcomes   == GetRaises \cup StatusClasses
NoResponse    == [status_code |-> "none", text |-> <<>>]
\* the text of a response with an error status
ErrorPage     == BodyOfLen(1)
\* Response.raise_for_status(): HTTPError for 400 <= status_code < 600
raise_for_status(response) == response.status_code \in {"4xx", "5xx"}
\* lines 68 and 70: the defaults of default_delay and retry_backoff_factor
DefaultDelay         == 1
DefaultBackoffFactor == 2
\* the values the constructor is given for them
DelayChoices  == {DefaultDelay, 3}
FactorChoices == {DefaultBackoffFactor, 3}
\* random.uniform(0, 1): the two ends of the interval
JitterChoices == {0, 1}
RECURSIVE Pow(_, _)
\* b ** e
Pow(b, e) == IF e = 0 THEN 1 ELSE b * Pow(b, e - 1)
\* line 196: the time slept after the failed attempt numbered `a`
BackoffDelay(d, factor, a, jitter) == d * Pow(factor, a) + jitter
\* stored[url] after a cache write that failed
WriteFailed == <<"WriteFailed">>

VARIABLES
    base_url,        \* self.base_url
    max_retries,     \* self.max_retries
    delay,           \* self.delay
    retry_backoff_factor, \* self.retry_backoff_factor
    robot_parser,    \* self.robot_parser
    robots_load,     \* how robot_parser.read() ended in __init__
    cache,           \* the files of absolute_cache_dir: file name -> contents
    stored,          \* the latest cache write of this scraper: for the URL
                     \* it was for, the body written in full or WriteFailed
                     \* if the write failed; None for every other URL
    calls,           \* scrape calls started so far
    pc,              \* position of the current scrape call
    target_url_path, \* strategy.get_url() of the current call
    full_url,        \* scrape's full_url
    net_script,      \* the network's behaviour during the current call
    prior,           \* stored[full_url] when the current call started
    policy,          \* outcome of can_fetch in the current call
    robot_calls,     \* arguments of the robot_parser.can_fetch calls of the
                     \* current call
    cache_read,      \* outcome of the cache lookup in the current call
    cache_path,      \* get_page_content's cache_path: the file name in the
                     \* cache directory
    attempt,         \* loop variable of the retry loop
    gets,            \* requests.get calls of the current call
    sleeps,          \* time.sleep calls of the current call
    fetch_end,       \* how get_page_content ended
    html_content,    \* scrape's html_content
    response,        \* the response of the last requests.get that returned one
    trace,           \* the states of the call's state machine entered so far
    current_delay,   \* the retry loop's current_delay: what the last time.sleep
                     \* was called with (0: no sleep yet, or the loop is left)
    parse_calls,     \* strategy.parse calls of the current call
    parse_ret,       \* what strategy.parse returned (or Raised)
    soup,            \* the document handed to WatersStrategy.parse (NoSoup:
                     \* none, or the strategy is another one)
    result,          \* what scrape returned
    threads,         \* scrape calls running concurrently on one scraper:
                     \* thread -> the position and locals of its
                     \* get_page_content call
    fetched          \* the bodies requests.get has returned to the threads

config_vars == <<base_url, max_retries, delay, retry_backoff_factor,
                 robot_parser, robots_load>>
call_vars == <<target_url_path, full_url, net_script, prior, policy, cache_read,
               attempt, gets, sleeps, fetch_end, html_content, parse_calls,
               parse_ret, result, response, trace, current_delay, robot_calls,
               cache_path, soup>>
thread_vars == <<threads, fetched>>
vars == <<config_vars, cache, stored, calls, pc, call_vars, thread_vars>>

\* the threads that call scrape on the shared scraper
Threads == {1, 2}
\* no thread has called scrape
NoThreads ==
    /\ threads = [t \in Threads |->
                     [pc |-> "idle", calls |-> 0, attempt |-> 0, gets |-> 0,
                      body |-> None, content |-> None, from_cache |-> FALSE]]
    /\ fetched = {}

\* lines 64-121: the state __init__ leaves; the cache directory may hold a
\* file written by an earlier run of the program for one of its pages
Init ==
    /\ \E origin \in Origins : base_url = rstrip(origin, "/")
    /\ max_retries \in 0..MaxRetries
    /\ delay = DefaultDelay
    /\ retry_backoff_factor = DefaultBackoffFactor
    /\ robots_load \in RobotsLoads
    /\ robot_parser = LoadRobots(robots_load)
    /\ \/ cache = [k \in Keys |-> NoFile]
       \/ \E p \in Paths :
             cache = [k \in Keys |-> IF k = safe_filename(ResolveUrl(base_url, p))
                                     THEN BodyOfLen(MaxBodyLen) ELSE NoFile]
    /\ stored = [u \in URLs |-> None]
    /\ calls = 0
    /\ pc = "idle"
    /\ target_url_path = None
    /\ full_url = None
    /\ net_script = AlwaysFail
    /\ prior = None
    /\ policy = "unset"
    /\ robot_calls = <<>>
    /\ cache_read = "unset"
    /\ cache_path = None
    /\ attempt = 0
    /\ gets = 0
    /\ sleeps = 0
    /\ fetch_end = "unset"
    /\ html_content = None
    /\ response = NoResponse
    /\ trace = <<>>
    /\ current_delay = 0
    /\ parse_calls = 0
    /\ parse_ret = Unset
    /\ soup = NoSoup
    /\ result = Unset
    /\ NoThreads

\* scrape() whose guard of line 227 lets None through (`if target_url_path
\* == ""`) and which resolves the URL as self.base_url + target_url_path, as
\* page_scraper_2.py line 213 does: str + None raises TypeError
Scrape_ConcatenateNone(path, script) ==
    /\ pc = "idle"
    /\ calls < MaxCalls
    /\ calls' = calls + 1
    /\ target_url_path' = path
    /\ net_script' = script
    /\ policy' = "unset"
    /\ robot_calls' = <<>>
    /\ cache_read' = "unset"
    /\ cache_path' = None
    /\ attempt' = 0
    /\ gets' = 0
    /\ sleeps' = 0
    /\ fetch_end' = "unset"
    /\ html_content' = None
    /\ response' = NoResponse
    /\ current_delay' = 0
    /\ parse_calls' = 0
    /\ parse_ret' = Unset
    /\ soup' = NoSoup
    /\ IF Falsy(path)
       THEN /\ full_url' = None
            /\ trace' = <<"Resolving", IF path = None THEN "Raised" ELSE "Failure">>
            /\ prior' = None
            /\ result' = IF path = None THEN Raised ELSE None
            /\ pc' = "done"
       ELSE /\ full_url' = ResolveUrl(base_url, path)
            /\ trace' = <<"Resolving", "PolicyCheck">>
            /\ prior' = stored[full_url']
            /\ result' = Unset
            /\ pc' = "PolicyCheck"
    /\ UNCHANGED <<config_vars, cache, stored, thread_vars>>

\* lines 222-232: scrape() up to the call of get_page_content
Scrape(path, script) ==
    /\ pc = "idle"
    /\ calls < MaxCalls
    /\ calls' = calls + 1
    /\ target_url_path' = path
    /\ net_script' = script
    /\ policy' = "unset"
    /\ robot_calls' = <<>>
    /\ cache_read' = "unset"
    /\ cache_path' = None
    /\ attempt' = 0
    /\ gets' = 0
    /\ sleeps' = 0
    /\ fetch_end' = "unset"
    /\ html_content' = None
    /\ response' = NoResponse
    /\ current_delay' = 0
    /\ parse_calls' = 0
    /\ parse_ret' = Unset
    /\ soup' = NoSoup
    /\ IF Falsy(path)
       THEN /\ full_url' = None
            /\ trace' = <<"Resolving", "Failure">>
            /\ prior' = None
            /\ result' = None
            /\ pc' = "done"
       ELSE /\ full_url' = ResolveUrl(base_url, path)
            /\ trace' = <<"Resolving", "PolicyCheck">>
            /\ prior' = stored[full_url']
            /\ result' = Unset
            /\ pc' = "PolicyCheck"
    /\ UNCHANGED <<config_vars, cache, stored, thread_vars>>

\* the robots gate without its `return None`: a denial is logged and the
\* fetch goes on to the cache
CanFetch_NoReturn(raises) ==
    /\ pc = "PolicyCheck"
    /\ robot_calls' = Append(robot_calls, <<user_agent, full_url>>)
    /\ policy' = IF raises THEN "error"
                 ELSE IF RobotParserCanFetch(robot_parser, full_url)
                      THEN "allow" ELSE "deny"
    /\ pc' = "CacheCheck"
    /\ UNCHANGED <<config_vars, cache, stored, calls,
                   target_url_path, full_url, net_script, prior, cache_read,
                   attempt, gets, sleeps, parse_calls, parse_ret, result,
                   fetch_end, html_content, response, trace, current_delay,
                   cache_path, soup, thread_vars>>

\* get_page_content with the cache lookup moved in front of the robots gate
CanFetch_CacheFirst(raises) ==
    /\ pc = "PolicyCheck"
    /\ cache_path' = safe_filename(full_url)
    /\ LET file == cache[cache_path'] IN
       IF file # NoFile
       THEN /\ cache_read' = "hit"
            /\ html_content' = ReadText(file)
            /\ fetch_end' = "CacheHit"
            /\ pc' = "HaveContent"
            /\ trace' = Append(trace, "CacheHit")
            /\ UNCHANGED <<policy, robot_calls>>
       ELSE /\ robot_calls' = Append(robot_calls, <<user_agent, full_url>>)
            /\ policy' = IF raises THEN "error"
                         ELSE IF RobotParserCanFetch(robot_parser, full_url)
                              THEN "allow" ELSE "deny"
            /\ IF can_fetch(robot_parser, full_url, raises)
               THEN /\ pc' = "CacheCheck"
                    /\ UNCHANGED <<fetch_end, html_content>>
               ELSE /\ fetch_end' = "PolicyDenied"
                    /\ html_content' = None
                    /\ pc' = "HaveContent"
            /\ UNCHANGED <<cache_read, trace>>
    /\ UNCHANGED <<config_vars, cache, stored, calls,
                   target_url_path, full_url, net_script, prior,
                   attempt, gets, sleeps, parse_calls, parse_ret, result, response,
                   current_delay, soup, thread_vars>>

\* the robots gate asked about the path the strategy returned instead of the
\* resolved URL
CanFetch_PathOnly(raises) ==
    /\ pc = "PolicyCheck"
    /\ robot_calls' = Append(robot_calls, <<user_agent, target_url_path>>)
    /\ policy' = IF raises THEN "error"
                 ELSE IF RobotParserCanFetch(robot_parser, target_url_path)
                      THEN "allow" ELSE "deny"
    /\ IF can_fetch(robot_parser, target_url_path, raises)
       THEN /\ pc' = "CacheCheck"
            /\ UNCHANGED <<fetch_end, html_content>>
       ELSE /\ fetch_end' = "PolicyDenied"
            /\ html_content' = None
            /\ pc' = "HaveContent"
    /\ UNCHANGED <<config_vars, cache, stored, calls,
                   target_url_path, full_url, net_script, prior, cache_read,
                   attempt, gets, sleeps, parse_calls, parse_ret, result, response,
                   trace, current_delay, cache_path, soup, thread_vars>>

\* lines 151-153: the robots gate of get_page_content
CanFetch(raises) ==
    /\ pc = "PolicyCheck"
    /\ robot_calls' = Append(robot_calls, <<user_agent, full_url>>)
    /\ policy' = IF raises THEN "error"
                 ELSE IF RobotParserCanFetch(robot_parser, full_url)
                      THEN "allow" ELSE "deny"
    /\ IF can_fetch(robot_parser, full_url, raises)
       THEN /\ pc' = "CacheCheck"
            /\ UNCHANGED <<fetch_end, html_content>>
       ELSE /\ fetch_end' = "PolicyDenied"
            /\ html_content' = None
            /\ pc' = "HaveContent"
    /\ UNCHANGED <<config_vars, cache, stored, calls,
                   target_url_path, full_url, net_script, prior, cache_read,
                   attempt, gets, sleeps, parse_calls, parse_ret, result, response,
                   trace, current_delay, cache_path, soup, thread_vars>>

\* the cache lookup taking an empty cache file for a miss (`if not content`
\* after the read)
CacheLookup_EmptyIsMiss(fault) ==
    /\ pc = "CacheCheck"
    /\ cache_path' = safe_filename(full_url)
    /\ LET file == cache[cache_path'] IN
       IF file = NoFile \/ file = <<>>
       THEN /\ fault = "none"
            /\ cache_read' = "miss"
            /\ pc' = "Fetching"
            /\ trace' = Append(trace, "Fetching")
            /\ UNCHANGED <<fetch_end, html_content, result>>
       ELSE IF fault = "none"
       THEN /\ cache_read' = "hit"
            /\ html_content' = ReadText(file)
            /\ fetch_end' = "CacheHit"
            /\ pc' = "HaveContent"
            /\ trace' = Append(trace, "CacheHit")
            /\ UNCHANGED result
       ELSE IF fault = "OSError"
       THEN /\ cache_read' = "OSError"
            /\ pc' = "Fetching"
            /\ trace' = Append(trace, "Fetching")
            /\ UNCHANGED <<fetch_end, html_content, result>>
       ELSE /\ cache_read' = "UnicodeDecodeError"
            /\ fetch_end' = "Raised"
            /\ result' = Raised
            /\ pc' = "done"
            /\ trace' = Append(trace, "Raised")
            /\ UNCHANGED html_content
    /\ attempt' = 0
    /\ UNCHANGED <<config_vars, cache, stored, calls,
                   target_url_path, full_url, net_script, prior, policy,
                   gets, sleeps, parse_calls, parse_ret, response,
                   current_delay, robot_calls, soup, thread_vars>>

\* lines 155-168: the cache lookup; fault is what reading the file raises
CacheLookup(fault) ==
    /\ pc = "CacheCheck"
    /\ cache_path' = safe_filename(full_url)
    /\ LET file == cache[cache_path'] IN
       IF file = NoFile
       THEN /\ fault = "none"
            /\ cache_read' = "miss"
            /\ pc' = "Fetching"
            /\ trace' = Append(trace, "Fetching")
            /\ UNCHANGED <<fetch_end, html_content, result>>
       ELSE IF fault = "none"
       THEN /\ cache_read' = "hit"
            /\ html_content' = ReadText(file)
            /\ fetch_end' = "CacheHit"
            /\ pc' = "HaveContent"
            /\ trace' = Append(trace, "CacheHit")
            /\ UNCHANGED result
       ELSE IF fault = "OSError"
       THEN /\ cache_read' = "OSError"
            /\ pc' = "Fetching"
            /\ trace' = Append(trace, "Fetching")
            /\ UNCHANGED <<fetch_end, html_content, result>>
       ELSE /\ cache_read' = "UnicodeDecodeError"
            /\ fetch_end' = "Raised"
            /\ result' = Raised
            /\ pc' = "done"
            /\ trace' = Append(trace, "Raised")
            /\ UNCHANGED html_content
    /\ attempt' = 0
    /\ UNCHANGED <<config_vars, cache, stored, calls,
                   target_url_path, full_url, net_script, prior, policy,
                   gets, sleeps, parse_calls, parse_ret, response,
                   current_delay, robot_calls, soup, thread_vars>>

\* what a failed cache write leaves of the file: open() raised (file as it
\* was) or f.write raised after open() truncated it (a proper prefix)
AfterWrite(old, text, wfault) ==
    IF wfault = "none" THEN {WriteText(text)}
    ELSE IF wfault = "open" THEN {old}
    ELSE {SubSeq(WriteText(text), 1, n) : n \in 0..(Len(WriteText(text)) - 1)}

\* the retry loop with the backoff base fixed to 2 (delay * 2 ** attempt), as
\* in page_scraper_2.py line 183
RequestGet_FixedBase(outcome, body, wfault, jitter) ==
    /\ pc = "Fetching"
    /\ attempt < max_retries
    /\ gets' = gets + 1
    /\ IF NetFails(net_script, gets) THEN outcome # "2xx" ELSE outcome = "2xx"
    /\ IF outcome \in GetRaises
       THEN body = <<>> /\ response' = response
       ELSE IF outcome \in {"4xx", "5xx"}
       THEN body = <<>> /\ response' = [status_code |-> outcome, text |-> ErrorPage]
       ELSE response' = [status_code |-> outcome, text |-> body]
    /\ IF outcome \in GetRaises \/ raise_for_status(response')
       THEN /\ wfault = "none"
            /\ IF attempt < max_retries - 1
               THEN /\ current_delay' = BackoffDelay(delay, 2, attempt, jitter)
                    /\ sleeps' = sleeps + 1
                    /\ attempt' = attempt + 1
                    /\ UNCHANGED <<fetch_end, html_content, pc>>
               ELSE /\ jitter = 0
                    /\ fetch_end' = "NetworkExhausted"
                    /\ html_content' = None
                    /\ pc' = "HaveContent"
                    /\ current_delay' = 0
                    /\ UNCHANGED <<sleeps, attempt>>
            /\ UNCHANGED <<cache, stored>>
       ELSE /\ \E file \in AfterWrite(cache[cache_path], body, wfault) :
                 cache' = [cache EXCEPT ![cache_path] = file]
            /\ stored' = [u \in URLs |->
                              IF u # full_url THEN None
                              ELSE IF wfault = "none" THEN body ELSE WriteFailed]
            /\ fetch_end' = "NetworkSuccess"
            /\ html_content' = response'.text
            /\ pc' = "HaveContent"
            /\ jitter = 0
            /\ current_delay' = 0
            /\ UNCHANGED <<sleeps, attempt>>
    /\ UNCHANGED <<config_vars, calls, target_url_path, full_url, net_script,
                   prior, policy, cache_read, parse_calls, parse_ret, result,
                   trace, robot_calls, cache_path, soup, thread_vars>>

\* the retry loop running range(max_retries + 1): one first attempt and then
\* max_retries retries
RequestGet_ExtraAttempt(outcome, body, wfault, jitter) ==
    /\ pc = "Fetching"
    /\ attempt < max_retries + 1
    /\ gets' = gets + 1
    /\ IF NetFails(net_script, gets) THEN outcome # "2xx" ELSE outcome = "2xx"
    /\ IF outcome \in GetRaises
       THEN body = <<>> /\ response' = response
       ELSE IF outcome \in {"4xx", "5xx"}
       THEN body = <<>> /\ response' = [status_code |-> outcome, text |-> ErrorPage]
       ELSE response' = [status_code |-> outcome, text |-> body]
    /\ IF outcome \in GetRaises \/ raise_for_status(response')
       THEN /\ wfault = "none"
            /\ IF attempt < max_retries
               THEN /\ current_delay' = BackoffDelay(delay, retry_backoff_factor,
                                                       attempt, jitter)
                    /\ sleeps' = sleeps + 1
                    /\ attempt' = attempt + 1
                    /\ UNCHANGED <<fetch_end, html_content, pc>>
               ELSE /\ jitter = 0
                    /\ fetch_end' = "NetworkExhausted"
                    /\ html_content' = None
                    /\ pc' = "HaveContent"
                    /\ current_delay' = 0
                    /\ UNCHANGED <<sleeps, attempt>>
            /\ UNCHANGED <<cache, stored>>
       ELSE /\ \E file \in AfterWrite(cache[cache_path], body, wfault) :
                 cache' = [cache EXCEPT ![cache_path] = file]
            /\ stored' = [u \in URLs |->
                              IF u # full_url THEN None
                              ELSE IF wfault = "none" THEN body ELSE WriteFailed]
            /\ fetch_end' = "NetworkSuccess"
            /\ html_content' = response'.text
            /\ pc' = "HaveContent"
            /\ jitter = 0
            /\ current_delay' = 0
            /\ UNCHANGED <<sleeps, attempt>>
    /\ UNCHANGED <<config_vars, calls, target_url_path, full_url, net_script,
                   prior, policy, cache_read, parse_calls, parse_ret, result,
                   trace, robot_calls, cache_path, soup, thread_vars>>

\* the retry loop running range(max(1, max_retries)): one request is made
\* even when max_retries is 0
RequestGet_AtLeastOnce(outcome, body, wfault, jitter) ==
    /\ pc = "Fetching"
    /\ (attempt < max_retries \/ gets = 0)
    /\ gets' = gets + 1
    /\ IF NetFails(net_script, gets) THEN outcome # "2xx" ELSE outcome = "2xx"
    /\ IF outcome \in GetRaises
       THEN body = <<>> /\ response' = response
       ELSE IF outcome \in {"4xx", "5xx"}
       THEN body = <<>> /\ response' = [status_code |-> outcome, text |-> ErrorPage]
       ELSE response' = [status_code |-> outcome, text |-> body]
    /\ IF outcome \in GetRaises \/ raise_for_status(response')
       THEN /\ wfault = "none"
            /\ IF attempt < max_retries - 1
               THEN /\ current_delay' = BackoffDelay(delay, retry_backoff_factor,
                                                       attempt, jitter)
                    /\ sleeps' = sleeps + 1
                    /\ attempt' = attempt + 1
                    /\ UNCHANGED <<fetch_end, html_content, pc>>
               ELSE /\ jitter = 0
                    /\ fetch_end' = "NetworkExhausted"
                    /\ html_content' = None
                    /\ pc' = "HaveContent"
                    /\ current_delay' = 0
                    /\ UNCHANGED <<sleeps, attempt>>
            /\ UNCHANGED <<cache, stored>>
       ELSE /\ \E file \in AfterWrite(cache[cache_path], body, wfault) :
                 cache' = [cache EXCEPT ![cache_path] = file]
            /\ stored' = [u \in URLs |->
                              IF u # full_url THEN None
                              ELSE IF wfault = "none" THEN body ELSE WriteFailed]
            /\ fetch_end' = "NetworkSuccess"
            /\ html_content' = response'.text
            /\ pc' = "HaveContent"
            /\ jitter = 0
            /\ current_delay' = 0
            /\ UNCHANGED <<sleeps, attempt>>
    /\ UNCHANGED <<config_vars, calls, target_url_path, full_url, net_script,
                   prior, policy, cache_read, parse_calls, parse_ret, result,
                   trace, robot_calls, cache_path, soup, thread_vars>>

\* lines 171-201: one iteration of the retry loop; outcome is how
\* requests.get ends, body the text of the response it returns, jitter what
\* random.uniform(0, 1) returns
RequestGet(outcome, body, wfault, jitter) ==
    /\ pc = "Fetching"
    /\ attempt < max_retries
    /\ gets' = gets + 1
    /\ IF NetFails(net_script, gets) THEN outcome # "2xx" ELSE outcome = "2xx"
    /\ IF outcome \in GetRaises
       THEN body = <<>> /\ response' = response
       ELSE IF outcome \in {"4xx", "5xx"}
       THEN body = <<>> /\ response' = [status_code |-> outcome, text |-> ErrorPage]
       ELSE response' = [status_code |-> outcome, text |-> body]
    /\ IF outcome \in GetRaises \/ raise_for_status(response')
       THEN /\ wfault = "none"
            /\ IF attempt < max_retries - 1
               THEN /\ current_delay' = BackoffDelay(delay, retry_backoff_factor,
                                                       attempt, jitter)
                    /\ sleeps' = sleeps + 1
                    /\ attempt' = attempt + 1
                    /\ UNCHANGED <<fetch_end, html_content, pc>>
               ELSE /\ jitter = 0
                    /\ fetch_end' = "NetworkExhausted"
                    /\ html_content' = None
                    /\ pc' = "HaveContent"
                    /\ current_delay' = 0
                    /\ UNCHANGED <<sleeps, attempt>>
            /\ UNCHANGED <<cache, stored>>
       ELSE /\ \E file \in AfterWrite(cache[cache_path], body, wfault) :
                 cache' = [cache EXCEPT ![cache_path] = file]
            /\ stored' = [u \in URLs |->
                              IF u # full_url THEN None
                              ELSE IF wfault = "none" THEN body ELSE WriteFailed]
            /\ fetch_end' = "NetworkSuccess"
            /\ html_content' = response'.text
            /\ pc' = "HaveContent"
            /\ jitter = 0
            /\ current_delay' = 0
            /\ UNCHANGED <<sleeps, attempt>>
    /\ UNCHANGED <<config_vars, calls, target_url_path, full_url, net_script,
                   prior, policy, cache_read, parse_calls, parse_ret, result,
                   trace, robot_calls, cache_path, soup, thread_vars>>

\* line 202: the loop ran no iteration (max_retries = 0)
LoopExhausted ==
    /\ pc = "Fetching"
    /\ ~(attempt < max_retries)
    /\ fetch_end' = "NetworkExhausted"
    /\ html_content' = None
    /\ pc' = "HaveContent"
    /\ UNCHANGED <<config_vars, cache, stored, calls,
                   target_url_path, full_url, net_script, prior, policy,
                   cache_read, attempt, gets, sleeps, parse_calls, parse_ret,
                   result, response, trace, current_delay, robot_calls,
                   cache_path, soup, thread_vars>>

\* strategy.parse(soup): doc is the document when the strategy of the call is
\* WatersStrategy or ExampleComStrategy; any other strategy may return or
\* raise anything
StrategyParses(outcome, doc) ==
    IF doc = NoSoup THEN outcome \in ParseReturns \cup {Raised}
    ELSE IF doc.kind = "example"
    THEN target_url_path = ExamplePath /\ outcome = ExampleParse(doc)
    ELSE target_url_path = WatersPath /\ outcome = WatersParse(doc)

\* scrape() ending in `return strategy.parse(soup) or None`
ParseContent_Masking(outcome, doc) ==
    /\ pc = "HaveContent"
    /\ IF Falsy(html_content)
       THEN /\ outcome = None /\ doc = NoSoup
            /\ soup' = soup
            /\ result' = None
            /\ trace' = Append(trace, "Failure")
            /\ UNCHANGED <<parse_calls, parse_ret>>
       ELSE /\ StrategyParses(outcome, doc)
            /\ soup' = doc
            /\ parse_calls' = parse_calls + 1
            /\ parse_ret' = outcome
            /\ trace' = trace \o <<"Parsing", IF outcome = Raised
                                                THEN "Failure" ELSE "Success">>
            /\ result' = IF outcome \in {Raised, EmptyList, EmptyDict}
                         THEN None ELSE outcome
    /\ pc' = "done"
    /\ UNCHANGED <<config_vars, cache, stored, calls,
                   target_url_path, full_url, net_script, prior, policy,
                   cache_read, attempt, gets, sleeps, fetch_end, html_content,
                   response, current_delay, robot_calls, cache_path,
                   thread_vars>>

\* scrape() answering [] when there is no content, as page_scraper_2.py does
ParseContent_EmptyOnFailure(outcome, doc) ==
    /\ pc = "HaveContent"
    /\ IF Falsy(html_content)
       THEN /\ outcome = None /\ doc = NoSoup
            /\ soup' = soup
            /\ result' = EmptyList
            /\ trace' = Append(trace, "Failure")
            /\ UNCHANGED <<parse_calls, parse_ret>>
       ELSE /\ StrategyParses(outcome, doc)
            /\ soup' = doc
            /\ parse_calls' = parse_calls + 1
            /\ parse_ret' = outcome
            /\ trace' = trace \o <<"Parsing", IF outcome = Raised
                                                THEN "Failure" ELSE "Success">>
            /\ result' = IF outcome = Raised THEN None ELSE outcome
    /\ pc' = "done"
    /\ UNCHANGED <<config_vars, cache, stored, calls,
                   target_url_path, full_url, net_script, prior, policy,
                   cache_read, attempt, gets, sleeps, fetch_end, html_content,
                   response, current_delay, robot_calls, cache_path,
                   thread_vars>>

\* scrape() without the try/except around strategy.parse, as in
\* proposed_scraper.py: an exception of parse leaves scrape
ParseContent_NoCatch(outcome, doc) ==
    /\ pc = "HaveContent"
    /\ IF Falsy(html_content)
       THEN /\ outcome = None /\ doc = NoSoup
            /\ soup' = soup
            /\ result' = None
            /\ trace' = Append(trace, "Failure")
            /\ UNCHANGED <<parse_calls, parse_ret>>
       ELSE /\ StrategyParses(outcome, doc)
            /\ soup' = doc
            /\ parse_calls' = parse_calls + 1
            /\ parse_ret' = outcome
            /\ trace' = trace \o <<"Parsing", IF outcome = Raised
                                                THEN "Raised" ELSE "Success">>
            /\ result' = outcome
    /\ pc' = "done"
    /\ UNCHANGED <<config_vars, cache, stored, calls,
                   target_url_path, full_url, net_script, prior, policy,
                   cache_read, attempt, gets, sleeps, fetch_end, html_content,
                   response, current_delay, robot_calls, cache_path,
                   thread_vars>>

\* scrape() without the `if not html_content` check of lines 234-236: the
\* document is parsed whatever get_page_content returned
ParseContent_NoContentCheck(outcome, doc) ==
    /\ pc = "HaveContent"
    /\ StrategyParses(outcome, doc)
    /\ soup' = doc
    /\ parse_calls' = parse_calls + 1
    /\ parse_ret' = outcome
    /\ trace' = trace \o <<"Parsing", IF outcome = Raised
                                        THEN "Failure" ELSE "Success">>
    /\ result' = IF outcome = Raised THEN None ELSE outcome
    /\ pc' = "done"
    /\ UNCHANGED <<config_vars, cache, stored, calls,
                   target_url_path, full_url, net_script, prior, policy,
                   cache_read, attempt, gets, sleeps, fetch_end, html_content,
                   response, current_delay, robot_calls, cache_path,
                   thread_vars>>

\* lines 234-243: scrape() after get_page_content returned
ParseContent(outcome, doc) ==
    /\ pc = "HaveContent"
    /\ IF Falsy(html_content)
       THEN /\ outcome = None /\ doc = NoSoup
            /\ soup' = soup
            /\ result' = None
            /\ trace' = Append(trace, "Failure")
            /\ UNCHANGED <<parse_calls, parse_ret>>
       ELSE /\ StrategyParses(outcome, doc)
            /\ soup' = doc
            /\ parse_calls' = parse_calls + 1
            /\ parse_ret' = outcome
            /\ trace' = trace \o <<"Parsing", IF outcome = Raised
                                                THEN "Failure" ELSE "Success">>
            /\ result' = IF outcome = Raised THEN None ELSE outcome
    /\ pc' = "done"
    /\ UNCHANGED <<config_vars, cache, stored, calls,
                   target_url_path, full_url, net_script, prior, policy,
                   cache_read, attempt, gets, sleeps, fetch_end, html_content,
                   response, current_delay, robot_calls, cache_path,
                   thread_vars>>

\* scrape() has returned to its caller: its locals are gone
Return ==
    /\ pc = "done"
    /\ pc' = "idle"
    /\ target_url_path' = None
    /\ full_url' = None
    /\ net_script' = AlwaysFail
    /\ prior' = None
    /\ policy' = "unset"
    /\ robot_calls' = <<>>
    /\ cache_read' = "unset"
    /\ cache_path' = None
    /\ attempt' = 0
    /\ gets' = 0
    /\ sleeps' = 0
    /\ fetch_end' = "unset"
    /\ html_content' = None
    /\ response' = NoResponse
    /\ trace' = <<>>
    /\ current_delay' = 0
    /\ parse_calls' = 0
    /\ parse_ret' = Unset
    /\ soup' = NoSoup
    /\ result' = Unset
    /\ UNCHANGED <<config_vars, cache, stored, calls, thread_vars>>

Next ==
    \/ \E path \in GetUrlReturns, script \in NetScripts : Scrape(path, script)
    \/ \E raises \in BOOLEAN : CanFetch(raises)
    \/ \E fault \in {"none", "OSError", "UnicodeDecodeError"} : CacheLookup(fault)
    \/ \E outcome \in GetOutcomes, body \in Bodies,
          wfault \in {"none", "open", "write"}, jitter \in JitterChoices :
           RequestGet(outcome, body, wfault, jitter)
    \/ LoopExhausted
    \/ \E outcome \in ParseReturns \cup {Raised}, doc \in Soups \cup {NoSoup} :
           ParseContent(outcome, doc)
    \/ Return

Spec == Init /\ [][Next]_vars

\* scrapers constructed with other delays and backoff factors, with no retry
\* loop at all or MaxBackoffRetries attempts, on a site whose robots.txt is
\* missing (404: everything allowed) and with an empty cache directory
InitBackoff ==
    /\ \E origin \in Origins : base_url = rstrip(origin, "/")
    /\ max_retries \in {0, MaxBackoffRetries}
    /\ delay \in DelayChoices
    /\ retry_backoff_factor \in FactorChoices
    /\ robots_load = [kind |-> "http_4xx", rules |-> {}]
    /\ robot_parser = LoadRobots(robots_load)
    /\ cache = [k \in Keys |-> NoFile]
    /\ stored = [u \in URLs |-> None]
    /\ calls = 0
    /\ pc = "idle"
    /\ target_url_path = None
    /\ full_url = None
    /\ net_script = AlwaysFail
    /\ prior = None
    /\ policy = "unset"
    /\ robot_calls = <<>>
    /\ cache_read = "unset"
    /\ cache_path = None
    /\ attempt = 0
    /\ gets = 0
    /\ sleeps = 0
    /\ fetch_end = "unset"
    /\ html_content = None
    /\ response = NoResponse
    /\ trace = <<>>
    /\ current_delay = 0
    /\ parse_calls = 0
    /\ parse_ret = Unset
    /\ soup = NoSoup
    /\ result = Unset
    /\ NoThreads

SpecBackoff == InitBackoff /\ [][Next]_vars

\* lines 64-121: another scraper is constructed for the site at origin and
\* takes the place of the first. Its cache_dir is the same directory (the
\* default, "scraper_cache"), its other arguments are the same and the
\* robots.txt it reads is the same
Construct(origin) ==
    /\ pc = "idle"
    /\ base_url # rstrip(origin, "/")
    /\ base_url' = rstrip(origin, "/")
    /\ UNCHANGED <<max_retries, delay, retry_backoff_factor, robot_parser,
                   robots_load, cache, stored, calls, pc, call_vars, thread_vars>>

\* a step of the scrape call in progress. scrape and get_page_content are
\* straight-line synchronous code: once called they run on, requests.get is
\* given timeout=10 (line 173), so it returns or raises, and time.sleep
\* returns after the delay
CallStep ==
    \/ \E raises \in BOOLEAN : CanFetch(raises)
    \/ \E fault \in {"none", "OSError", "UnicodeDecodeError"} : CacheLookup(fault)
    \/ \E outcome \in GetOutcomes, body \in Bodies,
          wfault \in {"none", "open", "write"}, jitter \in JitterChoices :
           RequestGet(outcome, body, wfault, jitter)
    \/ LoopExhausted
    \/ \E outcome \in ParseReturns \cup {Raised}, doc \in Soups \cup {NoSoup} :
           ParseContent(outcome, doc)

\* the program of Spec with every call it starts run to its end
SpecFair == Init /\ [][Next]_vars /\ WF_vars(CallStep)

\* no scrape call has been made yet
NoCall ==
    /\ calls = 0
    /\ pc = "idle"
    /\ target_url_path = None
    /\ full_url = None
    /\ net_script = AlwaysFail
    /\ prior = None
    /\ policy = "unset"
    /\ robot_calls = <<>>
    /\ cache_read = "unset"
    /\ cache_path = None
    /\ attempt = 0
    /\ gets = 0
    /\ sleeps = 0
    /\ fetch_end = "unset"
    /\ html_content = None
    /\ response = NoResponse
    /\ trace = <<>>
    /\ current_delay = 0
    /\ parse_calls = 0
    /\ parse_ret = Unset
    /\ soup = NoSoup
    /\ result = Unset
    /\ NoThreads

\* a scraper with the default delays whose site has no robots.txt (404:
\* everything allowed), starting with an empty cache directory
InitExample ==
    /\ \E origin \in Origins : base_url = rstrip(origin, "/")
    /\ max_retries \in {0, 1}
    /\ delay = DefaultDelay
    /\ retry_backoff_factor = DefaultBackoffFactor
    /\ robots_load = [kind |-> "http_4xx", rules |-> {}]
    /\ robot_parser = LoadRobots(robots_load)
    /\ cache = [k \in Keys |-> NoFile]
    /\ stored = [u \in URLs |-> None]
    /\ NoCall

\* the scrape calls of app/scrapers/scrape_example.py: the strategy is
\* ExampleComStrategy
NextExample ==
    \/ \E script \in NetScripts : Scrape(ExamplePath, script)
    \/ \E raises \in BOOLEAN : CanFetch(raises)
    \/ \E fault \in {"none", "OSError", "UnicodeDecodeError"} : CacheLookup(fault)
    \/ \E outcome \in GetOutcomes, body \in Bodies,
          wfault \in {"none", "open", "write"}, jitter \in JitterChoices :
           RequestGet(outcome, body, wfault, jitter)
    \/ LoopExhausted
    \/ \E outcome \in ExampleResults \cup {None}, doc \in ExampleDocs \cup {NoSoup} :
           ParseContent(outcome, doc)
    \/ Return

SpecExample == InitExample /\ [][NextExample]_vars

\* a scraper for the http or the https origin of a site whose robots.txt is
\* missing (404: everything allowed), starting with an empty cache directory
InitCollide ==
    /\ base_url \in {Host, SecureHost}
    /\ max_retries \in {0, 1}
    /\ delay = DefaultDelay
    /\ retry_backoff_factor = DefaultBackoffFactor
    /\ robots_load = [kind |-> "http_4xx", rules |-> {}]
    /\ robot_parser = LoadRobots(robots_load)
    /\ cache = [k \in Keys |-> NoFile]
    /\ stored = [u \in URLs |-> None]
    /\ NoCall

\* scrapers for the two origins, one after the other, scraping the pages of
\* CollidePaths
NextCollide ==
    \/ \E origin \in {Host, SecureHost} : Construct(origin)
    \/ \E path \in CollidePaths, script \in NetScripts : Scrape(path, script)
    \/ \E raises \in BOOLEAN : CanFetch(raises)
    \/ \E fault \in {"none", "OSError", "UnicodeDecodeError"} : CacheLookup(fault)
    \/ \E outcome \in GetOutcomes, body \in Bodies,
          wfault \in {"none", "open", "write"}, jitter \in JitterChoices :
           RequestGet(outcome, body, wfault, jitter)
    \/ LoopExhausted
    \/ \E outcome \in ParseReturns \cup {Raised} : ParseContent(outcome, NoSoup)
    \/ Return

SpecCollide == InitCollide /\ [][NextCollide]_vars

TypeOK ==
    /\ pc \in {"idle", "PolicyCheck", "CacheCheck", "Fetching", "HaveContent", "done"}
    /\ calls \in 0..MaxCalls
    /\ gets \in 0..max_retries
    /\ sleeps \in 0..max_retries
    /\ attempt \in 0..max_retries

\* ---------------------------------------------------------------- threads
\* Two threads call scrape for the same page on one scraper (one cache
\* directory).  Each statement of get_page_content that touches the file
\* system or the network is one step; the steps of the threads interleave.
ThreadURL == ResolveUrl(base_url, WatersPath)
ThreadKey == safe_filename(ThreadURL)
\* what the site answers to the threads: the page changes between requests
ThreadBodies == {<<"a", "a">>, <<"b">>}
\* the state of the sequential scrape calls, which the threads leave alone
seq_vars == <<config_vars, stored, calls, pc, call_vars>>
\* write(2) of text at offset 0 of a file opened without O_APPEND: bytes
\* beyond the text, written through another descriptor, stay
Overwrite(file, text) == text \o SubSeq(file, Len(text) + 1, Len(file))

\* a thread calls scrape -> get_page_content(url); the robots gate passes
ThreadCall(t) ==
    /\ threads[t].pc = "idle"
    /\ threads[t].calls < MaxCalls
    /\ threads' = [threads EXCEPT ![t] =
                      [pc |-> "exists", calls |-> @.calls + 1, attempt |-> 0,
                       gets |-> 0, body |-> None, content |-> None,
                       from_cache |-> FALSE]]
    /\ UNCHANGED <<seq_vars, cache, fetched>>

\* line 160: os.path.exists(cache_path)
ThreadExists(t) ==
    /\ threads[t].pc = "exists"
    /\ threads' = [threads EXCEPT ![t].pc =
                      IF cache[ThreadKey] # NoFile THEN "read" ELSE "loop"]
    /\ UNCHANGED <<seq_vars, cache, fetched>>

\* lines 162-164: open(cache_path, "r") and f.read()
ThreadRead(t) ==
    /\ threads[t].pc = "read"
    /\ threads' = [threads EXCEPT ![t] =
                      IF cache[ThreadKey] = NoFile
                      THEN [@ EXCEPT !.pc = "loop"]
                      ELSE [@ EXCEPT !.pc = "done",
                                     !.content = ReadText(cache[ThreadKey]),
                                     !.from_cache = TRUE]]
    /\ UNCHANGED <<seq_vars, cache, fetched>>

\* the retry loop counting its attempts in an attribute of the scraper
\* (self.attempt) instead of a local: the threads advance one counter
ThreadGet_SharedAttempt(t, ok, body) ==
    /\ threads[t].pc = "loop"
    /\ threads[1].attempt + threads[2].attempt < max_retries
    /\ IF ok
       THEN /\ threads' = [threads EXCEPT ![t] =
                              [@ EXCEPT !.gets = @ + 1, !.body = body,
                                        !.pc = "open"]]
            /\ fetched' = fetched \cup {body}
       ELSE /\ threads' = [threads EXCEPT ![t] =
                              IF threads[1].attempt + threads[2].attempt < max_retries - 1
                              THEN [@ EXCEPT !.gets = @ + 1, !.attempt = @ + 1]
                              ELSE [@ EXCEPT !.gets = @ + 1, !.pc = "done"]]
            /\ UNCHANGED fetched
    /\ UNCHANGED <<seq_vars, cache>>

\* lines 171-174 and 187-201: one requests.get of the thread's retry loop;
\* ok: it returned a response raise_for_status accepts, with text body
ThreadGet(t, ok, body) ==
    /\ threads[t].pc = "loop"
    /\ threads[t].attempt < max_retries
    /\ IF ok
       THEN /\ threads' = [threads EXCEPT ![t] =
                              [@ EXCEPT !.gets = @ + 1, !.body = body,
                                        !.pc = "open"]]
            /\ fetched' = fetched \cup {body}
       ELSE /\ threads' = [threads EXCEPT ![t] =
                              IF @.attempt < max_retries - 1
                              THEN [@ EXCEPT !.gets = @ + 1, !.attempt = @ + 1]
                              ELSE [@ EXCEPT !.gets = @ + 1, !.pc = "done"]]
            /\ UNCHANGED fetched
    /\ UNCHANGED <<seq_vars, cache>>

\* line 202: the loop ran no iteration (max_retries = 0)
ThreadExhausted(t) ==
    /\ threads[t].pc = "loop"
    /\ ~(threads[t].attempt < max_retries)
    /\ threads' = [threads EXCEPT ![t].pc = "done"]
    /\ UNCHANGED <<seq_vars, cache, fetched>>

\* line 178: open(cache_path, "w") creates the file or truncates it
ThreadOpen(t) ==
    /\ threads[t].pc = "open"
    /\ cache' = [cache EXCEPT ![ThreadKey] = <<>>]
    /\ threads' = [threads EXCEPT ![t].pc = "write"]
    /\ UNCHANGED <<seq_vars, fetched>>

\* lines 179-185: f.write(response.text), the flush when the with block
\* closes the file, and return response.text
ThreadWrite(t) ==
    /\ threads[t].pc = "write"
    /\ cache' = [cache EXCEPT ![ThreadKey] =
                    Overwrite(@, WriteText(threads[t].body))]
    /\ threads' = [threads EXCEPT ![t] =
                      [@ EXCEPT !.pc = "done", !.content = threads[t].body]]
    /\ UNCHANGED <<seq_vars, fetched>>

\* the thread's scrape call has returned: its locals are gone
ThreadReturn(t) ==
    /\ threads[t].pc = "done"
    /\ threads' = [threads EXCEPT ![t] =
                      [pc |-> "idle", calls |-> @.calls, attempt |-> 0,
                       gets |-> 0, body |-> None, content |-> None,
                       from_cache |-> FALSE]]
    /\ UNCHANGED <<seq_vars, cache, fetched>>

NextConcurrent ==
    \E t \in Threads :
        \/ ThreadCall(t)
        \/ ThreadExists(t)
        \/ ThreadRead(t)
        \/ \E ok \in BOOLEAN, body \in ThreadBodies : ThreadGet(t, ok, body)
        \/ ThreadExhausted(t)
        \/ ThreadOpen(t)
        \/ ThreadWrite(t)
        \/ ThreadReturn(t)

\* a scraper whose site has no robots.txt (404: everything allowed) and
\* whose cache directory is empty, shared by the threads
InitConcurrent ==
    /\ base_url = Host
    /\ max_retries \in 0..MaxRetries
    /\ delay = DefaultDelay
    /\ retry_backoff_factor = DefaultBackoffFactor
    /\ robots_load = [kind |-> "http_4xx", rules |-> {}]
    /\ robot_parser = LoadRobots(robots_load)
    /\ cache = [k \in Keys |-> NoFile]
    /\ stored = [u \in URLs |-> None]
    /\ NoCall

SpecConcurrent == InitConcurrent /\ [][NextConcurrent]_vars

\* ----------------------------------------------------------------- claims
\* the file name the current call's URL is cached under
cache_key == safe_filename(full_url)
\* the robots policy answers False for every URL of the site
DeniesAll == \A u \in URLs : ~RobotParserCanFetch(robot_parser, u)

\* C1: with a network that fails on every attempt and max_retries = K (cache
\* miss, robots allowing), scrape returns None after exactly K+1 GETs.
C1_ExhaustedAfterKPlusOne ==
    (pc = "done" /\ net_script = AlwaysFail /\ fetch_end = "NetworkExhausted")
        => (result = None /\ gets = max_retries + 1)

\* C2: with a network that fails exactly N times and then succeeds and
\* max_retries >= N, the fetch succeeds, scrape returns the parse result and
\* requests.get is called exactly N+1 times.
C2_SucceedsAfterNFailures ==
    (/\ pc = "done"
     /\ net_script # AlwaysFail
     /\ net_script <= max_retries
     /\ fetch_end \in {"NetworkSuccess", "NetworkExhausted"})
        => /\ fetch_end = "NetworkSuccess"
           /\ gets = net_script + 1
           /\ (~Falsy(html_content) /\ parse_ret # Raised) => result = parse_ret

C4_CacheBeforeRobots ==
    (/\ robots_load.kind = "parsed"
     /\ policy # "error"
     /\ pc = "HaveContent"
     /\ cache[cache_key] \notin {NoFile, <<>>}
     /\ cache_read # "OSError"
     /\ fetch_end # "NetworkSuccess")
        => (html_content = ReadText(cache[cache_key]) /\ policy = "unset")

\* C4 amended: the robots policy is consulted before the cache; a denied URL
\* yields None even if a readable cache entry exists, the cache is consulted
\* only after robots allowed the URL, and a hit returns the entry as read
\* with no GET.
C4_RobotsBeforeCache ==
    /\ cache_read # "unset" => policy = "allow"
    /\ (pc = "HaveContent" /\ policy \in {"deny", "error"})
           => (html_content = None /\ cache_read = "unset" /\ gets = 0)
    /\ (pc = "HaveContent" /\ cache_read = "hit")
           => (html_content = ReadText(cache[cache_key]) /\ gets = 0)

C4_Witness ==
    /\ pc = "HaveContent"
    /\ policy = "deny"
    /\ cache[cache_key] \in Bodies \ {<<>>}
    /\ html_content = None

\* C5: once a scrape has fetched body B for a URL and cached it, every later
\* scrape of that URL (robots allowing, cache readable) gets exactly B from
\* the cache with no GET and no sleep.
C5_CacheRoundTrip ==
    (/\ pc = "HaveContent"
     /\ prior \in Bodies
     /\ policy = "allow"
     /\ cache_read \notin {"OSError", "UnicodeDecodeError"})
        => (cache_read = "hit" /\ html_content = prior /\ gets = 0 /\ sleeps = 0)

\* C6: the URL scrape resolves has exactly one "/" between origin and path,
\* whatever slashes the origin ends with and the path starts with.
C6_OneSeparator ==
    full_url # None => full_url = Host \o <<"/">> \o lstrip(target_url_path, "/")

\* C7: if loading robots.txt raised during construction, every later
\* can_fetch answers True and scrape is not denied.
C7_LoadFailureFailsOpen ==
    (robots_load.kind = "raise" /\ policy \notin {"unset", "error"})
        => (policy = "allow" /\ fetch_end # "PolicyDenied")

\* C8: if evaluating the rules raises inside can_fetch, can_fetch answers
\* False without raising and the fetch fails with no cache access and no GET.
C8_EvalErrorFailsClosed ==
    policy = "error" => /\ fetch_end = "PolicyDenied"
                        /\ html_content = None
                        /\ cache_read = "unset"
                        /\ gets = 0
                        /\ result \in {Unset, None}

C8_Witness ==
    /\ policy = "error"
    /\ pc = "done"
    /\ result = None
    /\ RobotParserCanFetch(robot_parser, full_url)
    /\ net_script = 0

\* C9: when the fetch yields a body (cache hit or network success), scrape
\* calls strategy.parse exactly once and returns what parse returned,
\* None, [] and {} included, unchanged.
C9_ParseResultUnchanged ==
    (/\ pc = "done"
     /\ fetch_end \in {"CacheHit", "NetworkSuccess"}
     /\ ~Falsy(html_content))
        => /\ parse_calls = 1
           /\ parse_ret # Raised => result = parse_ret

C9_Witness ==
    /\ pc = "done"
    /\ fetch_end = "CacheHit"
    /\ parse_calls = 1
    /\ parse_ret \in {None, EmptyList, EmptyDict}
    /\ result = parse_ret

C11_ParseRaiseFails ==
    [][/\ (pc = "HaveContent" /\ parse_ret' = Raised)
           => /\ result' = None
              /\ pc' = "done"
              /\ parse_calls' = 1
              /\ gets' = gets
              /\ cache' = cache
       /\ (pc = "done" /\ parse_ret = Raised)
           => (pc' = "idle" /\ cache' = cache /\ gets' = 0)]_vars

C11_Witness ==
    /\ pc = "done"
    /\ parse_ret = Raised
    /\ result = None
    /\ parse_calls = 1
    /\ fetch_end = "NetworkSuccess"
    /\ gets >= 1
    /\ cache[cache_key] = WriteText(html_content)

\* C12: no exception escapes scrape for the anticipated failures (robots
\* denial, failing GETs, a cache read failure, a cache write failure, a
\* strategy returning None): every finished call has returned a value.
C12_NoExceptionEscapes ==
    pc = "done" => (result # Raised /\ result \in ParseReturns)

\* C14: a failure to read an existing cache file, an OSError or content that
\* cannot be decoded, is treated as a miss: the fetch goes on to the network
\* and no exception leaves it.
C14_ReadFailureIsMiss ==
    cache_read \in {"OSError", "UnicodeDecodeError"}
        => /\ fetch_end \in {"unset", "NetworkSuccess", "NetworkExhausted"}
           /\ pc \in {"Fetching", "HaveContent", "done"}
           /\ pc = "done" => result # Raised

\* C13: a cache write failure after a successful response is not fatal: the
\* fetch returns the response body, issues no further GET in that call, and
\* the next fetch of the URL (robots allowing, file readable) is a cache miss.
C13_WriteFailureNonFatal ==
    /\ (fetch_end = "NetworkSuccess" /\ stored[full_url] = WriteFailed)
           => /\ html_content = response.text
              /\ gets = attempt + 1
              /\ pc \in {"HaveContent", "done"}
    /\ (/\ prior = WriteFailed
        /\ policy = "allow"
        /\ cache_read \notin {"unset", "OSError", "UnicodeDecodeError"})
           => cache_read = "miss"

\* C18: only a 2xx response is a success: a response of any other status
\* class is a failed attempt, its body is neither cached nor returned.
C18_Only2xxSucceeds ==
    (response # NoResponse /\ response.status_code # "2xx")
        => /\ fetch_end # "NetworkSuccess"
           /\ html_content = None
           /\ pc \in {"Fetching", "HaveContent", "done"}

\* the runs of the state machine that end after Parsing was entered from `via`
ParsedRuns(via) ==
    {<<"Resolving", "PolicyCheck", via, "Parsing", end>> :
         end \in {"Success", "Failure"}}

C16_BackoffSchedule ==
    /\ pc = "Fetching" => (sleeps = attempt /\ gets = attempt)
    /\ (pc = "Fetching" /\ attempt = 0) => current_delay = 0
    /\ (pc = "Fetching" /\ attempt > 0)
           => \E jitter \in 0..1 :
                  current_delay =
                      delay * Pow(retry_backoff_factor, attempt - 1) + jitter
    /\ (fetch_end \in {"NetworkExhausted", "NetworkSuccess"} /\ gets >= 1)
           => sleeps = gets - 1
    /\ fetch_end \in {"PolicyDenied", "CacheHit", "Raised"} => sleeps = 0

C16_Witness ==
    /\ pc = "done"
    /\ fetch_end = "NetworkExhausted"
    /\ retry_backoff_factor = 3
    /\ delay = 3
    /\ gets = 3
    /\ sleeps = 2

\* C17: within one fetch the robots gate is evaluated exactly once, with the
\* scraper's user agent and the resolved absolute URL, and a denial ends the
\* fetch at once: no cache access, no GET, no sleep, no second evaluation.
C17_DenialNotRetried ==
    /\ pc = "PolicyCheck" => robot_calls = <<>>
    /\ pc \in {"CacheCheck", "Fetching", "HaveContent"}
           => robot_calls = << <<user_agent, full_url>> >>
    /\ pc = "done" => robot_calls = IF full_url = None THEN <<>>
                                    ELSE << <<user_agent, full_url>> >>
    /\ policy = "deny" => /\ pc \in {"HaveContent", "done"}
                          /\ fetch_end = "PolicyDenied"
                          /\ html_content = None
                          /\ cache_read = "unset"
                          /\ gets = 0
                          /\ sleeps = 0

C17_Witness ==
    /\ pc = "done"
    /\ policy = "deny"
    /\ robot_calls = << <<user_agent, full_url>> >>
    /\ robots_load.kind = "parsed"
    /\ max_retries >= 2
    /\ net_script = 0
    /\ result = None

\* the derivation C19 describes: the leading protocol prefix is removed
StripProtocolPrefix(url) ==
    IF Len(url) >= Len(HTTP) /\ SubSeq(url, 1, Len(HTTP)) = HTTP
    THEN SubSeq(url, Len(HTTP) + 1, Len(url))
    ELSE IF Len(url) >= Len(HTTPS) /\ SubSeq(url, 1, Len(HTTPS)) = HTTPS
    THEN SubSeq(url, Len(HTTPS) + 1, Len(url))
    ELSE url
\* every "/" and ":" becomes "_"
MapSeparators(s) == [i \in 1..Len(s) |-> IF s[i] \in {"/", ":"} THEN "_" ELSE s[i]]
\* the text has no "/" and no ":" (hence no "http://" or "https://" either)
\* and ends with ".html"
SafeKey(k) ==
    /\ \A i \in 1..Len(k) : k[i] \notin {"/", ":"}
    /\ Len(k) >= Len(DotHtml)
    /\ SubSeq(k, Len(k) - Len(DotHtml) + 1, Len(k)) = DotHtml

C27_EmptyBodyPoisonsCache ==
    /\ (/\ fetch_end = "NetworkSuccess"
        /\ response.text = <<>>
        /\ stored[full_url] = <<>>)
           => /\ cache[cache_path] = <<>>
              /\ pc = "done" => (result = None /\ parse_calls = 0)
    /\ (/\ prior = <<>>
        /\ policy = "allow"
        /\ cache_read \notin {"unset", "OSError", "UnicodeDecodeError"})
           => /\ cache_read = "hit"
              /\ html_content = <<>>
              /\ gets = 0
              /\ cache[cache_path] = <<>>
              /\ pc = "done" => (result = None /\ parse_calls = 0)

\* a second scrape of a URL whose empty body the first one cached
C27_Witness ==
    /\ pc = "done"
    /\ calls = 2
    /\ prior = <<>>
    /\ cache_read = "hit"
    /\ gets = 0
    /\ parse_calls = 0
    /\ result = None

C26_WriteThroughOnSuccessOnly ==
    [][/\ \A k \in Keys : cache[k] # NoFile => cache'[k] # NoFile
       /\ \A k \in Keys : cache'[k] # cache[k] =>
             /\ pc = "Fetching"
             /\ fetch_end' = "NetworkSuccess"
             /\ k = safe_filename(full_url)
             /\ cache'[k] = response'.text]_vars

\* C21: ExampleComStrategy.parse never raises on markup with a missing title
\* or a missing h1: it returns a mapping with both keys, where a present
\* element yields its stripped text, a missing h1 yields "No heading found"
\* and a missing or empty title yields "No title found".
C21_PlaceholdersForMissingElements ==
    (pc = "done" /\ soup.kind = "example")
        => /\ parse_ret = Dict(IF soup.title.present /\ TagText(soup.title) # <<>>
                               THEN strip(TagText(soup.title)) ELSE NoTitleFound,
                               IF soup.h1.present
                               THEN strip(TagText(soup.h1)) ELSE NoHeadingFound)
           /\ result = parse_ret

\* C23: every scrape call terminates: for any finite max_retries and any
\* behaviour of the network in which each GET returns, raises or times out,
\* the call reaches Success or Failure, after a number of network attempts
\* bounded by the configured maximum.
C23_ScrapeTerminates ==
    /\ [](gets <= max_retries)
    /\ [](pc = "done" => trace[Len(trace)] \in {"Success", "Failure"})
    /\ (pc \notin {"idle", "done"}) ~> (pc = "done")

\* C29: when two scrape calls for the same URL run concurrently against a
\* shared cache directory, any body a call obtains from the cache is a
\* complete body that some successful network fetch of that URL returned
\* (never an empty or partially written file), and once all calls have
\* finished the cache entry equals the body of one of the writers.
C29_ConcurrentCacheIsWhole ==
    /\ \A t \in Threads :
          (threads[t].pc = "done" /\ threads[t].from_cache)
              => threads[t].content \in fetched
    /\ (\A t \in Threads : threads[t].pc \in {"idle", "done"})
          => (cache[ThreadKey] = NoFile \/ cache[ThreadKey] \in fetched)

\* C22: retry state is scoped to one fetch call: every get_page_content call
\* starts at attempt 0 with the configured delay, max_retries and backoff
\* factor, none of which an earlier or a concurrently running call changes,
\* so the number of network attempts a call makes depends on its own
\* failures only: one attempt per failure it has seen, plus the one that
\* succeeds, and max_retries of them when all fail.
C22_RetryStatePerCall ==
    /\ [](\A t \in Threads :
             /\ threads[t].gets <= max_retries
             /\ threads[t].pc \in {"exists", "read"}
                   => (threads[t].attempt = 0 /\ threads[t].gets = 0)
             /\ threads[t].pc = "loop" => threads[t].gets = threads[t].attempt
             /\ threads[t].pc \in {"open", "write"}
                   => threads[t].gets = threads[t].attempt + 1
             /\ (/\ threads[t].pc = "done"
                 /\ ~threads[t].from_cache
                 /\ threads[t].content = None)
                   => threads[t].gets = max_retries)
    /\ [][<<max_retries, delay, retry_backoff_factor>>'
              = <<max_retries, delay, retry_backoff_factor>>]_vars

\* a thread in its second call has failed once and is about to retry while
\* the other thread has used up all its attempts
C22_Witness ==
    \E t \in Threads, u \in Threads :
        /\ t # u
        /\ threads[t].pc = "loop"
        /\ threads[t].calls = 2
        /\ threads[t].attempt = 1
        /\ threads[u].pc = "done"
        /\ ~threads[u].from_cache
        /\ threads[u].content = None
        /\ threads[u].gets = MaxRetries

\* the URLs differ only in scheme: http:// in one, https:// in the other
DifferInScheme(u, v) ==
    u # v /\ StripProtocolPrefix(u) = StripProtocolPrefix(v)
\* the URLs differ only by "_" or ":" in one where the other has "/"
DifferInSeparators(u, v) ==
    /\ u # v
    /\ Len(u) = Len(v)
    /\ \A i \in 1..Len(u) :
          \/ u[i] = v[i]
          \/ u[i] = "/" /\ v[i] \in {"_", ":"}
          \/ v[i] = "/" /\ u[i] \in {"_", ":"}

\* C30: distinct URLs that differ only in scheme, or only by having "_" or
\* ":" where the other has "/", map to the same cache key; after one of
\* them is cached, a fetch of the other (allowed by the policy, the file
\* readable) returns the first URL's body with no network GET.
C30_CollidingUrlsShareEntry ==
    \A u \in URLs, v \in URLs :
        (DifferInScheme(u, v) \/ DifferInSeparators(u, v))
            => /\ safe_filename(u) = safe_filename(v)
               /\ (/\ pc \in {"HaveContent", "done"}
                   /\ full_url = u
                   /\ stored[v] \in Bodies
                   /\ fetch_end # "NetworkSuccess"
                   /\ policy = "allow"
                   /\ cache_read \notin {"OSError", "UnicodeDecodeError"})
                      => /\ cache_read = "hit"
                         /\ gets = 0
                         /\ html_content = stored[v]

====
